---- MODULE Spec2Model ----
(***************************************************************************)
(* Renesas R-Car Gen3 USB2 PHY driver (drivers/phy/phy-rcar-gen3.c).       *)
(*                                                                         *)
(* The register block is a function from byte offsets to 32-bit values.    *)
(* A 32-bit value is the set of the positions of its 1 bits (bit 31 does   *)
(* not fit a TLC integer): v | s is v \cup s, v & ~c is v \ c.  U32 builds *)
(* such a value from its two 16-bit halves and Hi16/Lo16 read them back.   *)
(*                                                                         *)
(* Every handler is one action.  It runs on a machine record               *)
(*   [regs, vbus_on, clk_on, trace]                                        *)
(* threaded through the handler's statements in program order; trace is    *)
(* the sequence of bus accesses and collaborator calls the call made.      *)
(*                                                                         *)
(* hist records which calls have been made, by their arguments and results *)
(* alone: failed (the latest probe returned an error), mode_set (a set_mode *)
(* has returned 0) and int_src, the latest call that is documented to      *)
(* program INT_ENABLE ("reset": none yet, "cleared": init or exit,          *)
(* "armed": set_mode(OTG, submode # 0)).                                   *)
(***************************************************************************)
EXTENDS Integers, Sequences, FiniteSets, TLC

VARIABLES regs, priv, bound, vbus_on, clk_on, inited, last, prev_op, hist

vars == <<regs, priv, bound, vbus_on, clk_on, inited, last, prev_op, hist>>

(* ------------------------------ bounds --------------------------------- *)

\* set_mode's submode argument is drawn from 0..MaxSubmode
MaxSubmode == 1

(* ------------------------- 32-bit values ------------------------------- *)

BIT(n) == {n}

Bits16(n) == {i \in 0..15 : (n \div (2^i)) % 2 = 1}

U32(hi, lo) == Bits16(lo) \cup {i + 16 : i \in Bits16(hi)}

RECURSIVE Weight(_)
Weight(s) == IF s = {} THEN 0
             ELSE LET i == CHOOSE x \in s : TRUE IN 2^i + Weight(s \ {i})

Lo16(v) == Weight(v \cap (0..15))
Hi16(v) == Weight({i - 16 : i \in v \cap (16..31)})

ALL_ONES == 0..31

(* --------------------------- register map ------------------------------ *)

USB2_INT_ENABLE == 0
USB2_USBCTR == 12
USB2_SPD_RSM_TIMSET == 268
USB2_OC_TIMSET == 272
USB2_COMMCTRL == 1536
USB2_OBINTSTA == 1540
USB2_OBINTEN == 1544
USB2_VBCTRL == 1548
USB2_LINECTRL1 == 1552
USB2_ADPCTRL == 1584

Offsets == {USB2_INT_ENABLE, USB2_USBCTR, USB2_SPD_RSM_TIMSET, USB2_OC_TIMSET,
            USB2_COMMCTRL, USB2_OBINTSTA, USB2_OBINTEN, USB2_VBCTRL,
            USB2_LINECTRL1, USB2_ADPCTRL}

USB2_INT_ENABLE_UCOM_INTEN == BIT(3)
USB2_INT_ENABLE_USBH_INTB_EN == BIT(2)
USB2_INT_ENABLE_USBH_INTA_EN == BIT(1)

USB2_USBCTR_PLL_RST == BIT(1)

\* 0x014e029b
USB2_SPD_RSM_TIMSET_INIT == U32(334, 667)

\* 0x000209ab
USB2_OC_TIMSET_INIT == U32(2, 2475)

USB2_COMMCTRL_OTG_PERI == BIT(31)

USB2_OBINT_SESSVLDCHG == BIT(12)
USB2_OBINT_IDDIGCHG == BIT(11)

USB2_VBCTRL_DRVVBUSSEL == BIT(8)

USB2_LINECTRL1_DPRPD_EN == BIT(19)
USB2_LINECTRL1_DP_RPD == BIT(18)
USB2_LINECTRL1_DMRPD_EN == BIT(17)
USB2_LINECTRL1_DM_RPD == BIT(16)

USB2_ADPCTRL_OTGSESSVLD == BIT(20)
USB2_ADPCTRL_IDDIG == BIT(19)
USB2_ADPCTRL_IDPULLUP == BIT(5)
USB2_ADPCTRL_DRVVBUS == BIT(4)

(* ------------------------ error codes, modes --------------------------- *)

ENOENT == 2
EINVAL == 22

PHY_MODE_INVALID == "PHY_MODE_INVALID"
PHY_MODE_USB_HOST == "PHY_MODE_USB_HOST"
PHY_MODE_USB_DEVICE == "PHY_MODE_USB_DEVICE"
PHY_MODE_USB_OTG == "PHY_MODE_USB_OTG"
PHY_MODE_ETHERNET == "PHY_MODE_ETHERNET"

\* the values of enum phy_mode a caller passes
Modes == {PHY_MODE_INVALID, PHY_MODE_USB_HOST, PHY_MODE_USB_DEVICE,
          PHY_MODE_USB_OTG, PHY_MODE_ETHERNET}

Submodes == 0..MaxSubmode

\* results of a regulator call: success or a failure
CallRets == {0, -ENOENT, -EINVAL}

(* ------------------------- register accessors -------------------------- *)

Ev(kind, reg, val) == [kind |-> kind, reg |-> reg, val |-> val]

readl(m, reg) == m.regs[reg]

LogRead(m, kind, reg) == [m EXCEPT !.trace = Append(@, Ev(kind, reg, m.regs[reg]))]

Store(m, kind, val, reg) ==
    [m EXCEPT !.regs[reg] = val, !.trace = Append(@, Ev(kind, reg, val))]

writel(m, val, reg) == Store(m, "writel", val, reg)

in_le32(m, reg) == LogRead(m, "in_le32", reg)

out_le32(m, reg, val) == Store(m, "out_le32", val, reg)

clrsetbits_le32(m, reg, clear, set) ==
    out_le32(in_le32(m, reg), reg, (readl(m, reg) \ clear) \cup set)

setbits_le32(m, reg, set) == out_le32(in_le32(m, reg), reg, readl(m, reg) \cup set)

clrbits_le32(m, reg, clear) == out_le32(in_le32(m, reg), reg, readl(m, reg) \ clear)

(* --------------------------- collaborators ----------------------------- *)

regulator_set_enable(m, enable, r) ==
    [m EXCEPT !.vbus_on = IF r = 0 THEN enable ELSE @,
              !.trace = Append(@, [kind |-> "regulator_set_enable",
                                   enable |-> enable, ret |-> r])]

clk_enable(m, r) ==
    [m EXCEPT !.clk_on = IF r = 0 THEN TRUE ELSE @,
              !.trace = Append(@, [kind |-> "clk_enable", ret |-> r])]

clk_disable(m) ==
    [m EXCEPT !.clk_on = FALSE,
              !.trace = Append(@, [kind |-> "clk_disable", ret |-> 0])]

(* ------------------------------ handlers ------------------------------- *)

Result(m, r) == [m |-> m, ret |-> r]

\* fault: the two timing constants are written to each other's register
Faulty_init_swapped(m) ==
    LET m1 == writel(m, {}, USB2_INT_ENABLE)
        m2 == writel(m1, USB2_OC_TIMSET_INIT, USB2_SPD_RSM_TIMSET)
        m3 == writel(m2, USB2_SPD_RSM_TIMSET_INIT, USB2_OC_TIMSET)
    IN  Result(m3, 0)

rcar_gen3_phy_phy_init(m) ==
    LET m1 == writel(m, {}, USB2_INT_ENABLE)
        m2 == writel(m1, USB2_SPD_RSM_TIMSET_INIT, USB2_SPD_RSM_TIMSET)
        m3 == writel(m2, USB2_OC_TIMSET_INIT, USB2_OC_TIMSET)
    IN  Result(m3, 0)

\* fault: exit returns without clearing INT_ENABLE
Faulty_exit_no_clear(m) == Result(m, 0)

rcar_gen3_phy_phy_exit(m) ==
    Result(writel(m, {}, USB2_INT_ENABLE), 0)

\* fault: the reset bit is set and never cleared
Faulty_PllResetPulse_no_clear(m) ==
    Result(setbits_le32(m, USB2_USBCTR, USB2_USBCTR_PLL_RST), 0)

\* lines 109-112: the PLL reset pulse
PllResetPulse(m) ==
    LET m1 == setbits_le32(m, USB2_USBCTR, USB2_USBCTR_PLL_RST)
        m2 == clrbits_le32(m1, USB2_USBCTR, USB2_USBCTR_PLL_RST)
    IN  Result(m2, 0)

\* fault: the PLL reset pulse is issued before the regulator result is checked
Faulty_power_on_pulse_first(m, vbus_supply, reg_ret) ==
    IF vbus_supply
    THEN LET m1 == regulator_set_enable(m, TRUE, reg_ret)
         IN  Result(PllResetPulse(m1).m, reg_ret)
    ELSE PllResetPulse(m)

\* reg_ret: what regulator_set_enable returns when it is called
rcar_gen3_phy_phy_power_on(m, vbus_supply, reg_ret) ==
    IF vbus_supply
    THEN LET m1 == regulator_set_enable(m, TRUE, reg_ret)
         IN  IF reg_ret # 0 THEN Result(m1, reg_ret) ELSE PllResetPulse(m1)
    ELSE PllResetPulse(m)

\* fault: the result of the regulator disable is dropped
Faulty_power_off_swallow(m, vbus_supply, reg_ret) ==
    IF ~vbus_supply
    THEN Result(m, 0)
    ELSE Result(regulator_set_enable(m, FALSE, reg_ret), 0)

\* fault: power_off also gates the reference clock
Faulty_power_off_gates_clock(m, vbus_supply, reg_ret) ==
    IF ~vbus_supply
    THEN Result(clk_disable(m), 0)
    ELSE Result(clk_disable(regulator_set_enable(m, FALSE, reg_ret)), reg_ret)

rcar_gen3_phy_phy_power_off(m, vbus_supply, reg_ret) ==
    IF ~vbus_supply
    THEN Result(m, 0)
    ELSE Result(regulator_set_enable(m, FALSE, reg_ret), reg_ret)


\* lines 135-154: arming of the OTG detection hardware
OtgArm(m) ==
    LET m1 == writel(m, USB2_INT_ENABLE_UCOM_INTEN \cup USB2_INT_ENABLE_USBH_INTB_EN
                        \cup USB2_INT_ENABLE_USBH_INTA_EN, USB2_INT_ENABLE)
        m2 == setbits_le32(m1, USB2_VBCTRL, USB2_VBCTRL_DRVVBUSSEL)
        m3 == writel(m2, USB2_OBINT_SESSVLDCHG \cup USB2_OBINT_IDDIGCHG, USB2_OBINTSTA)
        m4 == setbits_le32(m3, USB2_OBINTEN,
                           USB2_OBINT_SESSVLDCHG \cup USB2_OBINT_IDDIGCHG)
        m5 == setbits_le32(m4, USB2_ADPCTRL, USB2_ADPCTRL_IDPULLUP)
        m6 == clrsetbits_le32(m5, USB2_LINECTRL1,
                              USB2_LINECTRL1_DP_RPD \cup USB2_LINECTRL1_DM_RPD
                              \cup USB2_LINECTRL1_DPRPD_EN \cup USB2_LINECTRL1_DMRPD_EN,
                              USB2_LINECTRL1_DPRPD_EN \cup USB2_LINECTRL1_DMRPD_EN)
    IN  m6

adpdevmask == USB2_ADPCTRL_IDDIG \cup USB2_ADPCTRL_OTGSESSVLD

\* fault: either status bit alone selects the device role
Faulty_OtgResolve_any_bit(adpctrl) ==
    IF adpctrl \cap adpdevmask # {}
    THEN PHY_MODE_USB_DEVICE
    ELSE PHY_MODE_USB_HOST

\* lines 158-161: the mode an OTG request resolves to, from the ADPCTRL sample
OtgResolve(adpctrl) ==
    IF adpctrl \cap adpdevmask = adpdevmask
    THEN PHY_MODE_USB_DEVICE
    ELSE PHY_MODE_USB_HOST

\* fault: the host bits are stored with plain writes instead of read-modify-write
Faulty_HostActions_plain_write(m) ==
    LET m1 == writel(m, {}, USB2_COMMCTRL)
        m2 == writel(m1, USB2_LINECTRL1_DP_RPD \cup USB2_LINECTRL1_DM_RPD,
                     USB2_LINECTRL1)
        m3 == writel(m2, USB2_ADPCTRL_DRVVBUS, USB2_ADPCTRL)
    IN  m3

\* lines 165-168
HostActions(m) ==
    LET m1 == clrbits_le32(m, USB2_COMMCTRL, USB2_COMMCTRL_OTG_PERI)
        m2 == setbits_le32(m1, USB2_LINECTRL1,
                           USB2_LINECTRL1_DP_RPD \cup USB2_LINECTRL1_DM_RPD)
        m3 == setbits_le32(m2, USB2_ADPCTRL, USB2_ADPCTRL_DRVVBUS)
    IN  m3

\* fault: the D+ pull-down is left as it was
Faulty_DeviceActions_keep_dp(m) ==
    LET m1 == setbits_le32(m, USB2_COMMCTRL, USB2_COMMCTRL_OTG_PERI)
        m2 == setbits_le32(m1, USB2_LINECTRL1, USB2_LINECTRL1_DM_RPD)
        m3 == clrbits_le32(m2, USB2_ADPCTRL, USB2_ADPCTRL_DRVVBUS)
    IN  m3

\* fault: DRVVBUS is left asserted in device mode
Faulty_DeviceActions_keep_vbus(m) ==
    LET m1 == setbits_le32(m, USB2_COMMCTRL, USB2_COMMCTRL_OTG_PERI)
        m2 == clrsetbits_le32(m1, USB2_LINECTRL1,
                              USB2_LINECTRL1_DP_RPD \cup USB2_LINECTRL1_DM_RPD,
                              USB2_LINECTRL1_DM_RPD)
    IN  m2

\* lines 170-174
DeviceActions(m) ==
    LET m1 == setbits_le32(m, USB2_COMMCTRL, USB2_COMMCTRL_OTG_PERI)
        m2 == clrsetbits_le32(m1, USB2_LINECTRL1,
                              USB2_LINECTRL1_DP_RPD \cup USB2_LINECTRL1_DM_RPD,
                              USB2_LINECTRL1_DM_RPD)
        m3 == clrbits_le32(m2, USB2_ADPCTRL, USB2_ADPCTRL_DRVVBUS)
    IN  m3

\* fault: an unrecognized mode falls through to the host actions
Faulty_ApplyMode_default_host(m, mode) ==
    IF mode = PHY_MODE_USB_DEVICE THEN Result(DeviceActions(m), 0)
    ELSE Result(HostActions(m), 0)

\* lines 164-180: the terminal actions of a literal or resolved mode
ApplyMode(m, mode) ==
    IF mode = PHY_MODE_USB_HOST THEN Result(HostActions(m), 0)
    ELSE IF mode = PHY_MODE_USB_DEVICE THEN Result(DeviceActions(m), 0)
    ELSE Result(m, -EINVAL)

\* fault: the arming is gated on submode alone
Faulty_ArmIfRequested_any_mode(m, mode, submode) ==
    IF submode # 0 THEN OtgArm(m) ELSE m

\* lines 132-155: the arming runs for an OTG request with a non-zero submode
ArmIfRequested(m, mode, submode) ==
    IF mode = PHY_MODE_USB_OTG /\ submode # 0 THEN OtgArm(m) ELSE m

\* fault: ADPCTRL is sampled before the arming writes
Faulty_set_mode_sample_first(m, mode, submode) ==
    IF mode = PHY_MODE_USB_OTG
    THEN LET m1 == LogRead(m, "readl", USB2_ADPCTRL)
         IN  ApplyMode(ArmIfRequested(m1, mode, submode),
                       OtgResolve(readl(m, USB2_ADPCTRL)))
    ELSE ApplyMode(ArmIfRequested(m, mode, submode), mode)

\* fault: an OTG request reuses the role programmed earlier (COMMCTRL.OTG_PERI)
\* instead of sampling ADPCTRL
Faulty_set_mode_cached(m, mode, submode) ==
    LET m1 == ArmIfRequested(m, mode, submode)
    IN  IF mode = PHY_MODE_USB_OTG
        THEN ApplyMode(LogRead(m1, "readl", USB2_COMMCTRL),
                       IF USB2_COMMCTRL_OTG_PERI \subseteq readl(m1, USB2_COMMCTRL)
                       THEN PHY_MODE_USB_DEVICE ELSE PHY_MODE_USB_HOST)
        ELSE ApplyMode(m1, mode)

\* fault: the arming block sits outside the test for the OTG mode
Faulty_set_mode_arm_outside(m, mode, submode) ==
    LET m1 == IF submode # 0 THEN OtgArm(m) ELSE m
    IN  IF mode = PHY_MODE_USB_OTG
        THEN ApplyMode(LogRead(m1, "readl", USB2_ADPCTRL),
                       OtgResolve(readl(m1, USB2_ADPCTRL)))
        ELSE ApplyMode(m1, mode)

rcar_gen3_phy_phy_set_mode(m, mode, submode) ==
    LET m1 == ArmIfRequested(m, mode, submode)
    IN  IF mode = PHY_MODE_USB_OTG
        THEN ApplyMode(LogRead(m1, "readl", USB2_ADPCTRL),
                       OtgResolve(readl(m1, USB2_ADPCTRL)))
        ELSE ApplyMode(m1, mode)

\* the private data as the framework allocates it (priv_auto): zeroed
NoPriv == [regs |-> FALSE, vbus_supply |-> FALSE, clk |-> FALSE]

device_get_supply_regulator(m, r) ==
    [m EXCEPT !.trace = Append(@, [kind |-> "device_get_supply_regulator", ret |-> r])]

clk_get_by_index(m, r) ==
    [m EXCEPT !.trace = Append(@, [kind |-> "clk_get_by_index", ret |-> r])]

\* fault: the register base is validated after the lookups and the clock enable
Faulty_probe_late_addr_check(m, addr_ok, sup_ret, get_ret, en_ret) ==
    LET p1 == [NoPriv EXCEPT !.regs = addr_ok]
        m2 == device_get_supply_regulator(m, sup_ret)
        p2 == [p1 EXCEPT !.vbus_supply = (sup_ret = 0)]
        m3 == clk_get_by_index(m2, get_ret)
        p3 == [p2 EXCEPT !.clk = TRUE]
        m4 == clk_enable(m3, en_ret)
    IN  IF sup_ret # 0 /\ sup_ret # -ENOENT
        THEN [m |-> m2, ret |-> sup_ret, priv |-> p2]
        ELSE IF get_ret # 0 THEN [m |-> m3, ret |-> get_ret, priv |-> p2]
        ELSE IF en_ret # 0 THEN [m |-> m4, ret |-> en_ret, priv |-> p3]
        ELSE IF ~addr_ok THEN [m |-> m4, ret |-> -EINVAL, priv |-> p3]
        ELSE [m |-> m4, ret |-> 0, priv |-> p3]

\* fault: a failed clock enable is followed by a clock disable
Faulty_probe_cleanup_on_enable_failure(m, addr_ok, sup_ret, get_ret, en_ret) ==
    LET p1 == [NoPriv EXCEPT !.regs = addr_ok]
        m2 == device_get_supply_regulator(m, sup_ret)
        p2 == [p1 EXCEPT !.vbus_supply = (sup_ret = 0)]
        m3 == clk_get_by_index(m2, get_ret)
        p3 == [p2 EXCEPT !.clk = TRUE]
        m4 == clk_enable(m3, en_ret)
    IN  IF ~addr_ok THEN [m |-> m, ret |-> -EINVAL, priv |-> p1]
        ELSE IF sup_ret # 0 /\ sup_ret # -ENOENT
             THEN [m |-> m2, ret |-> sup_ret, priv |-> p2]
        ELSE IF get_ret # 0 THEN [m |-> m3, ret |-> get_ret, priv |-> p2]
        ELSE IF en_ret # 0 THEN [m |-> clk_disable(m4), ret |-> en_ret, priv |-> p3]
        ELSE [m |-> m4, ret |-> 0, priv |-> p3]

\* fault: a regulator that is not configured is treated as an error
Faulty_probe_enoent_fatal(m, addr_ok, sup_ret, get_ret, en_ret) ==
    LET p1 == [NoPriv EXCEPT !.regs = addr_ok]
        m2 == device_get_supply_regulator(m, sup_ret)
        p2 == [p1 EXCEPT !.vbus_supply = (sup_ret = 0)]
        m3 == clk_get_by_index(m2, get_ret)
        p3 == [p2 EXCEPT !.clk = TRUE]
        m4 == clk_enable(m3, en_ret)
    IN  IF ~addr_ok THEN [m |-> m, ret |-> -EINVAL, priv |-> p1]
        ELSE IF sup_ret # 0 THEN [m |-> m2, ret |-> sup_ret, priv |-> p2]
        ELSE IF get_ret # 0 THEN [m |-> m3, ret |-> get_ret, priv |-> p2]
        ELSE IF en_ret # 0 THEN [m |-> m4, ret |-> en_ret, priv |-> p3]
        ELSE [m |-> m4, ret |-> 0, priv |-> p3]

\* addr_ok: dev_read_addr found a register base; sup_ret, get_ret, en_ret: what
\* the regulator lookup, the clock lookup and the clock enable return when called
rcar_gen3_phy_probe(m, addr_ok, sup_ret, get_ret, en_ret) ==
    LET p1 == [NoPriv EXCEPT !.regs = addr_ok]
        m2 == device_get_supply_regulator(m, sup_ret)
        p2 == [p1 EXCEPT !.vbus_supply = (sup_ret = 0)]
        m3 == clk_get_by_index(m2, get_ret)
        p3 == [p2 EXCEPT !.clk = TRUE]
        m4 == clk_enable(m3, en_ret)
    IN  IF ~addr_ok THEN [m |-> m, ret |-> -EINVAL, priv |-> p1]
        ELSE IF sup_ret # 0 /\ sup_ret # -ENOENT
             THEN [m |-> m2, ret |-> sup_ret, priv |-> p2]
        ELSE IF get_ret # 0 THEN [m |-> m3, ret |-> get_ret, priv |-> p2]
        ELSE IF en_ret # 0 THEN [m |-> m4, ret |-> en_ret, priv |-> p3]
        ELSE [m |-> m4, ret |-> 0, priv |-> p3]

\* fault: remove also switches the VBUS regulator off
Faulty_remove_disables_vbus(m) ==
    Result(regulator_set_enable(clk_disable(m), FALSE, 0), 0)

rcar_gen3_phy_remove(m) == Result(clk_disable(m), 0)

(* ------------------------------ the machine ---------------------------- *)

Machine == [regs |-> regs, vbus_on |-> vbus_on, clk_on |-> clk_on, trace |-> <<>>]

Call(op, mode, submode, res) ==
    /\ regs' = res.m.regs
    /\ vbus_on' = res.m.vbus_on
    /\ clk_on' = res.m.clk_on
    /\ last' = [op |-> op, mode |-> mode, submode |-> submode, ret |-> res.ret,
                pre |-> regs, trace |-> res.m.trace]
    /\ prev_op' = last.op

\* contents of the register block when the driver first sees it.  Neither the
\* source nor the design gives reset values: the block is taken to hold any
\* contents (all clear, all set, mixed), an over-approximation of the hardware
InitPatterns == {{}, ALL_ONES, U32(23130, 42405)}

Init ==
    /\ \E p \in InitPatterns : regs = [o \in Offsets |-> p]
    /\ priv = NoPriv
    /\ bound = FALSE
    /\ vbus_on = FALSE
    /\ clk_on = FALSE
    /\ inited = FALSE
    /\ last = [op |-> "none", mode |-> PHY_MODE_INVALID, submode |-> 0, ret |-> 0,
               pre |-> regs, trace |-> <<>>]
    /\ prev_op = "none"
    /\ hist = [failed |-> FALSE, mode_set |-> FALSE, int_src |-> "reset"]

PhyInit ==
    /\ bound
    /\ Call("init", PHY_MODE_INVALID, 0, rcar_gen3_phy_phy_init(Machine))
    /\ inited' = TRUE
    /\ hist' = [hist EXCEPT !.int_src = "cleared"]
    /\ UNCHANGED <<priv, bound>>

PhyExit ==
    /\ bound
    /\ Call("exit", PHY_MODE_INVALID, 0, rcar_gen3_phy_phy_exit(Machine))
    /\ hist' = [hist EXCEPT !.int_src = "cleared"]
    /\ UNCHANGED <<priv, bound, inited>>

PhyPowerOn ==
    /\ bound
    /\ \E r \in CallRets :
         Call("power_on", PHY_MODE_INVALID, 0,
              rcar_gen3_phy_phy_power_on(Machine, priv.vbus_supply, r))
    /\ UNCHANGED <<priv, bound, inited, hist>>

PhyPowerOff ==
    /\ bound
    /\ \E r \in CallRets :
         Call("power_off", PHY_MODE_INVALID, 0,
              rcar_gen3_phy_phy_power_off(Machine, priv.vbus_supply, r))
    /\ UNCHANGED <<priv, bound, inited, hist>>

PhySetMode ==
    /\ bound
    /\ \E mode \in Modes, submode \in Submodes :
         LET res == rcar_gen3_phy_phy_set_mode(Machine, mode, submode)
         IN  /\ Call("set_mode", mode, submode, res)
             /\ hist' = [hist EXCEPT
                           !.mode_set = @ \/ res.ret = 0,
                           !.int_src = IF mode = PHY_MODE_USB_OTG /\ submode # 0
                                       THEN "armed" ELSE @]
    /\ UNCHANGED <<priv, bound, inited>>

\* results of the regulator lookup: found, not configured, or a failure
SupplyRets == {0, -ENOENT, -EINVAL}

Probe ==
    /\ ~bound
    /\ \E addr_ok \in BOOLEAN, sup_ret \in SupplyRets,
          get_ret \in {0, -ENOENT}, en_ret \in {0, -EINVAL} :
         LET res == rcar_gen3_phy_probe(Machine, addr_ok, sup_ret, get_ret, en_ret)
         IN  /\ Call("probe", PHY_MODE_INVALID, 0, res)
             /\ priv' = res.priv
             /\ bound' = (res.ret = 0)
             /\ hist' = [hist EXCEPT !.failed = (res.ret # 0)]
    /\ UNCHANGED inited

Remove ==
    /\ bound
    /\ Call("remove", PHY_MODE_INVALID, 0, rcar_gen3_phy_remove(Machine))
    /\ priv' = NoPriv
    /\ bound' = FALSE
    /\ UNCHANGED <<inited, hist>>

\* unbind of an instance whose latest bind failed: the handler runs on the
\* private data the failed probe left
RemoveFailed ==
    /\ ~bound
    /\ hist.failed
    /\ Call("remove", PHY_MODE_INVALID, 0, rcar_gen3_phy_remove(Machine))
    /\ UNCHANGED <<priv, bound, inited, hist>>

\* the hardware drives the two status bits of ADPCTRL (ID pin, session valid)
HwStatusChange ==
    /\ \E s \in SUBSET adpdevmask :
         /\ s # regs[USB2_ADPCTRL] \cap adpdevmask
         /\ regs' = [regs EXCEPT ![USB2_ADPCTRL] = (@ \ adpdevmask) \cup s]
    /\ last' = [op |-> "hw_status", mode |-> PHY_MODE_INVALID, submode |-> 0,
                ret |-> 0, pre |-> regs, trace |-> <<>>]
    /\ prev_op' = last.op
    /\ UNCHANGED <<priv, bound, vbus_on, clk_on, inited, hist>>

Next == \/ Probe
        \/ Remove
        \/ RemoveFailed
        \/ PhyInit
        \/ PhyExit
        \/ PhyPowerOn
        \/ PhyPowerOff
        \/ PhySetMode
        \/ HwStatusChange

Spec == Init /\ [][Next]_vars

(* ------------------------- reading a call's trace ---------------------- *)

IsWrite(e) == e.kind \in {"writel", "out_le32"}

IsRegulatorCall(e) == e.kind = "regulator_set_enable"

Writes(tr) == SelectSeq(tr, IsWrite)

\* the registers a trace writes, in the order of the writes
WriteRegs(tr) == [i \in DOMAIN Writes(tr) |-> Writes(tr)[i].reg]

RegulatorCalls(tr) == SelectSeq(tr, IsRegulatorCall)

\* the register block after the terminal actions of each mode, bit by bit
HostResult(r) == [r EXCEPT ![USB2_COMMCTRL] = @ \ {31},
                           ![USB2_LINECTRL1] = @ \cup {16, 18},
                           ![USB2_ADPCTRL] = @ \cup {4}]

DeviceResult(r) == [r EXCEPT ![USB2_COMMCTRL] = @ \cup {31},
                             ![USB2_LINECTRL1] = (@ \ {18}) \cup {16},
                             ![USB2_ADPCTRL] = @ \ {4}]

TerminalRegs == <<USB2_COMMCTRL, USB2_LINECTRL1, USB2_ADPCTRL>>

ArmingRegs == <<USB2_INT_ENABLE, USB2_VBCTRL, USB2_OBINTSTA, USB2_OBINTEN,
                USB2_ADPCTRL, USB2_LINECTRL1>>

(* -------------------------------- C1 ----------------------------------- *)

RegulatorEnableFailed ==
    /\ last.op = "power_on"
    /\ \E i \in DOMAIN last.trace :
         IsRegulatorCall(last.trace[i]) /\ last.trace[i].ret # 0

\* C1: a power_on whose regulator enable call fails returns that failure and
\* writes no PHY register: USBCTR.PLL_RST is neither set nor cleared and every
\* register holds the value it had before the call.
C1_PowerOnFailureTouchesNoRegister ==
    RegulatorEnableFailed =>
        /\ priv.vbus_supply
        /\ RegulatorCalls(last.trace) = <<[kind |-> "regulator_set_enable",
                                           enable |-> TRUE, ret |-> last.ret]>>
        /\ last.ret # 0
        /\ Writes(last.trace) = <<>>
        /\ regs = last.pre

\* a failed power_on on a block whose PLL_RST bit was set before the call
C1_Witness ==
    /\ RegulatorEnableFailed
    /\ last.ret = -ENOENT
    /\ 1 \in last.pre[USB2_USBCTR]
    /\ 1 \in regs[USB2_USBCTR]

(* -------------------------------- C2 ----------------------------------- *)

\* C2: a power_on that does not fail on the regulator returns 0 and makes
\* exactly two writes, both to USBCTR: the first with PLL_RST set, the second
\* with PLL_RST cleared, both keeping the other USBCTR bits; PLL_RST is 0 on
\* return.  Without a regulator no regulator call is made; with one, the enable
\* call is the first event of the call, before the first USBCTR write.
C2_PowerOnPulsesPllReset ==
    (last.op = "power_on" /\ ~RegulatorEnableFailed) =>
        LET w == Writes(last.trace)
            old == last.pre[USB2_USBCTR]
        IN  /\ last.ret = 0
            /\ Len(w) = 2
            /\ w[1].reg = USB2_USBCTR /\ w[1].val = old \cup {1}
            /\ w[2].reg = USB2_USBCTR /\ w[2].val = old \ {1}
            /\ regs = [last.pre EXCEPT ![USB2_USBCTR] = old \ {1}]
            /\ ~priv.vbus_supply => RegulatorCalls(last.trace) = <<>>
            /\ priv.vbus_supply =>
                 /\ Len(RegulatorCalls(last.trace)) = 1
                 /\ last.trace[1] = [kind |-> "regulator_set_enable",
                                     enable |-> TRUE, ret |-> 0]

\* a successful power_on with a regulator, on a USBCTR with other bits set
C2_Witness ==
    /\ last.op = "power_on"
    /\ last.ret = 0
    /\ priv.vbus_supply
    /\ vbus_on
    /\ last.pre[USB2_USBCTR] = ALL_ONES
    /\ regs[USB2_USBCTR] = ALL_ONES \ {1}

(* -------------------------------- C3 ----------------------------------- *)

IsSetMode(mode) == last.op = "set_mode" /\ last.mode = mode

\* C3: set_mode(OTG, 0) resolves to DEVICE exactly when IDDIG (19) and
\* OTGSESSVLD (20) are both set in ADPCTRL at the call and to HOST otherwise,
\* applies that mode's terminal actions and makes none of the arming writes.
C3_OtgRepollResolvesFromStatus ==
    (IsSetMode(PHY_MODE_USB_OTG) /\ last.submode = 0) =>
        /\ last.ret = 0
        /\ WriteRegs(last.trace) = TerminalRegs
        /\ regs = IF {19, 20} \subseteq last.pre[USB2_ADPCTRL]
                  THEN DeviceResult(last.pre)
                  ELSE HostResult(last.pre)

\* an OTG re-poll with IDDIG alone set, which takes a peripheral-mode block to host
C3_Witness ==
    /\ IsSetMode(PHY_MODE_USB_OTG) /\ last.submode = 0
    /\ last.pre[USB2_ADPCTRL] \cap {19, 20} = {19}
    /\ 31 \in last.pre[USB2_COMMCTRL]
    /\ 31 \notin regs[USB2_COMMCTRL]
    /\ 4 \in regs[USB2_ADPCTRL]

(* -------------------------------- C4 ----------------------------------- *)

\* C4: set_mode(OTG, submode # 0) makes the six arming writes exactly once and
\* all of them before the one sample of ADPCTRL, then applies the terminal
\* actions of the mode that sample resolves to; on return OBINTEN has
\* SESSVLDCHG and IDDIGCHG set, ADPCTRL has IDPULLUP set and LINECTRL1 has
\* DPRPD_EN and DMRPD_EN set.
C4_OtgArmingBeforeSample ==
    (IsSetMode(PHY_MODE_USB_OTG) /\ last.submode # 0) =>
        LET tr == last.trace IN
        /\ last.ret = 0
        /\ \E i \in DOMAIN tr :
             /\ tr[i].kind = "readl" /\ tr[i].reg = USB2_ADPCTRL
             /\ \A j \in DOMAIN tr : tr[j].kind = "readl" => j = i
             /\ WriteRegs(SubSeq(tr, 1, i - 1)) = ArmingRegs
             /\ WriteRegs(SubSeq(tr, i + 1, Len(tr))) = TerminalRegs
             /\ tr[i].val \cap {19, 20} = last.pre[USB2_ADPCTRL] \cap {19, 20}
             /\ IF {19, 20} \subseteq tr[i].val
                THEN /\ 31 \in regs[USB2_COMMCTRL]
                     /\ regs[USB2_LINECTRL1] \cap {16, 18} = {16}
                     /\ 4 \notin regs[USB2_ADPCTRL]
                ELSE /\ 31 \notin regs[USB2_COMMCTRL]
                     /\ regs[USB2_LINECTRL1] \cap {16, 18} = {16, 18}
                     /\ 4 \in regs[USB2_ADPCTRL]
        /\ {11, 12} \subseteq regs[USB2_OBINTEN]
        /\ 5 \in regs[USB2_ADPCTRL]
        /\ {17, 19} \subseteq regs[USB2_LINECTRL1]

\* an arming call on a cleared block that resolves to DEVICE
C4_Witness ==
    /\ IsSetMode(PHY_MODE_USB_OTG) /\ last.submode = 1
    /\ last.pre[USB2_OBINTEN] = {}
    /\ last.pre[USB2_ADPCTRL] = {19, 20}
    /\ regs[USB2_OBINTEN] = {11, 12}
    /\ regs[USB2_ADPCTRL] = {5, 19, 20}
    /\ regs[USB2_LINECTRL1] = {16, 17, 19}

(* -------------------------------- C5 ----------------------------------- *)

\* C5: set_mode(HOST, submode) returns 0 for every submode, leaves
\* COMMCTRL.OTG_PERI clear, LINECTRL1.DP_RPD and DM_RPD set and ADPCTRL.DRVVBUS
\* set, and writes COMMCTRL, LINECTRL1 and ADPCTRL only: no arming write is
\* made even for a non-zero submode.
C5_HostMode ==
    IsSetMode(PHY_MODE_USB_HOST) =>
        /\ last.ret = 0
        /\ 31 \notin regs[USB2_COMMCTRL]
        /\ {16, 18} \subseteq regs[USB2_LINECTRL1]
        /\ 4 \in regs[USB2_ADPCTRL]
        /\ WriteRegs(last.trace) = TerminalRegs
        /\ regs = HostResult(last.pre)

\* a host request with a non-zero submode on a block in peripheral mode
C5_Witness ==
    /\ IsSetMode(PHY_MODE_USB_HOST) /\ last.submode # 0
    /\ 31 \in last.pre[USB2_COMMCTRL]
    /\ 31 \notin regs[USB2_COMMCTRL]
    /\ regs[USB2_INT_ENABLE] = {}
    /\ regs[USB2_OBINTEN] = {}

(* -------------------------------- C6 ----------------------------------- *)

\* C6: set_mode(DEVICE, submode) returns 0 for every submode, leaves
\* COMMCTRL.OTG_PERI set, LINECTRL1.DP_RPD clear and DM_RPD set and
\* ADPCTRL.DRVVBUS clear, and writes COMMCTRL, LINECTRL1 and ADPCTRL only.
C6_DeviceMode ==
    IsSetMode(PHY_MODE_USB_DEVICE) =>
        /\ last.ret = 0
        /\ 31 \in regs[USB2_COMMCTRL]
        /\ 18 \notin regs[USB2_LINECTRL1]
        /\ 16 \in regs[USB2_LINECTRL1]
        /\ 4 \notin regs[USB2_ADPCTRL]
        /\ WriteRegs(last.trace) = TerminalRegs
        /\ regs = DeviceResult(last.pre)

\* a device request with a non-zero submode on a block set up for host
C6_Witness ==
    /\ IsSetMode(PHY_MODE_USB_DEVICE) /\ last.submode # 0
    /\ 18 \in last.pre[USB2_LINECTRL1]
    /\ 4 \in last.pre[USB2_ADPCTRL]
    /\ 31 \notin last.pre[USB2_COMMCTRL]
    /\ 18 \notin regs[USB2_LINECTRL1]
    /\ 4 \notin regs[USB2_ADPCTRL]
    /\ 31 \in regs[USB2_COMMCTRL]

(* -------------------------------- C7 ----------------------------------- *)

\* the bits of a register that set_mode programs
Programmed(reg) ==
    IF reg = USB2_LINECTRL1 THEN 16..19
    ELSE IF reg = USB2_ADPCTRL THEN {4, 5}
    ELSE IF reg = USB2_COMMCTRL THEN {31}
    ELSE {}

\* C7: in every set_mode call, every write to LINECTRL1, ADPCTRL and COMMCTRL
\* keeps the bits the call does not program (LINECTRL1 outside 16-19, ADPCTRL
\* outside DRVVBUS and IDPULLUP, so IDDIG and OTGSESSVLD too, COMMCTRL outside
\* 31), and these bits are the same after the call as before it.
C7_SetModePreservesUnrelatedBits ==
    last.op = "set_mode" =>
        \A reg \in {USB2_LINECTRL1, USB2_ADPCTRL, USB2_COMMCTRL} :
            /\ regs[reg] \ Programmed(reg) = last.pre[reg] \ Programmed(reg)
            /\ \A i \in DOMAIN last.trace :
                 (IsWrite(last.trace[i]) /\ last.trace[i].reg = reg) =>
                     last.trace[i].val \ Programmed(reg)
                         = last.pre[reg] \ Programmed(reg)

\* an arming call on a block with mixed contents: set and clear unrelated bits
\* of all three registers, and the one set status bit, survive
C7_Witness ==
    /\ IsSetMode(PHY_MODE_USB_OTG) /\ last.submode # 0 /\ last.ret = 0
    /\ last.pre[USB2_COMMCTRL] = U32(23130, 42405)
    /\ last.pre[USB2_ADPCTRL] \ {19, 20} = U32(23130, 42405) \ {19, 20}
    /\ last.pre[USB2_ADPCTRL] \cap {19, 20} = {20}
    /\ regs[USB2_COMMCTRL] = U32(23130, 42405)
    /\ regs[USB2_ADPCTRL] \cap {19, 20} = {20}
    /\ regs[USB2_LINECTRL1] # last.pre[USB2_LINECTRL1]
    /\ regs[USB2_LINECTRL1] \ (16..19) = U32(23130, 42405) \ (16..19)

(* -------------------------------- C8 ----------------------------------- *)

UnrecognizedMode ==
    /\ last.op = "set_mode"
    /\ last.mode \notin {PHY_MODE_USB_HOST, PHY_MODE_USB_DEVICE, PHY_MODE_USB_OTG}

\* C8: set_mode with submode 0 and a mode that is none of HOST, DEVICE, OTG
\* returns -EINVAL and writes no register: every register holds the value it
\* had before the call.
C8_UnknownModeRejected ==
    (UnrecognizedMode /\ last.submode = 0) =>
        /\ last.ret = -EINVAL
        /\ Writes(last.trace) = <<>>
        /\ regs = last.pre

\* a rejected request on a block whose mode bits are all set
C8_Witness ==
    /\ UnrecognizedMode /\ last.submode = 0
    /\ last.mode = PHY_MODE_ETHERNET
    /\ last.ret = -EINVAL
    /\ regs[USB2_COMMCTRL] = ALL_ONES
    /\ regs[USB2_LINECTRL1] = ALL_ONES

(* -------------------------------- C9 ----------------------------------- *)

\* C9: after init and after exit INT_ENABLE is 0 whatever it held before, the
\* value of an earlier arming included; init followed at once by exit leaves it
\* at 0; both always return 0.
C9_InitExitClearIntEnable ==
    last.op \in {"init", "exit"} =>
        /\ last.ret = 0
        /\ Hi16(regs[USB2_INT_ENABLE]) = 0 /\ Lo16(regs[USB2_INT_ENABLE]) = 0
        /\ (last.op = "exit" /\ prev_op = "init") =>
             (last.pre[USB2_INT_ENABLE] = {} /\ regs[USB2_INT_ENABLE] = {})

\* exit clearing the 0xE an arming wrote
C9_Witness ==
    /\ last.op = "exit"
    /\ prev_op = "set_mode"
    /\ Lo16(last.pre[USB2_INT_ENABLE]) = 14 /\ Hi16(last.pre[USB2_INT_ENABLE]) = 0
    /\ regs[USB2_INT_ENABLE] = {}

(* -------------------------------- C10 ---------------------------------- *)

HoldsTimingConstants(r) ==
    /\ Hi16(r[USB2_SPD_RSM_TIMSET]) = 334 /\ Lo16(r[USB2_SPD_RSM_TIMSET]) = 667
    /\ Hi16(r[USB2_OC_TIMSET]) = 2 /\ Lo16(r[USB2_OC_TIMSET]) = 2475

\* C10: init writes SPD_RSM_TIMSET = 0x014e029b and OC_TIMSET = 0x000209ab
\* whatever they held, and no other operation writes either register, so in
\* every state reached after an init both hold exactly these constants.
C10_TimingConstantsAfterInit ==
    /\ inited => HoldsTimingConstants(regs)
    /\ last.op # "init" =>
         /\ \A i \in DOMAIN last.trace :
              IsWrite(last.trace[i]) =>
                  last.trace[i].reg \notin {USB2_SPD_RSM_TIMSET, USB2_OC_TIMSET}
         /\ regs[USB2_SPD_RSM_TIMSET] = last.pre[USB2_SPD_RSM_TIMSET]
         /\ regs[USB2_OC_TIMSET] = last.pre[USB2_OC_TIMSET]

\* the constants still in place after a later arming call on a block that
\* started with all bits set
C10_Witness ==
    /\ inited
    /\ IsSetMode(PHY_MODE_USB_OTG) /\ last.submode # 0
    /\ regs[USB2_USBCTR] \cup {1} = ALL_ONES
    /\ HoldsTimingConstants(regs)

(* -------------------------------- C11 ---------------------------------- *)

Kinds(tr) == [i \in DOMAIN tr |-> tr[i].kind]

HasKind(tr, kind) == \E i \in DOMAIN tr : tr[i].kind = kind

\* C11: a bind whose device configuration has no register base fails with
\* -EINVAL and yields no instance; it returns before the regulator lookup, the
\* clock lookup and the clock enable: no collaborator is called and no clock is
\* enabled.
C11_BindWithoutRegisterBase ==
    (last.op = "probe" /\ ~priv.regs) =>
        /\ last.ret = -EINVAL
        /\ ~bound
        /\ hist.failed
        /\ last.trace = <<>>
        /\ ~clk_on
        /\ ~priv.vbus_supply /\ ~priv.clk
        /\ regs = last.pre

\* such a bind, attempted after an earlier instance was bound and unbound
C11_Witness ==
    /\ last.op = "probe" /\ ~priv.regs
    /\ prev_op = "remove"
    /\ last.ret = -EINVAL
    /\ ~bound

(* -------------------------------- C12 ---------------------------------- *)

ClockEnableFailed ==
    /\ last.op = "probe"
    /\ \E i \in DOMAIN last.trace :
         last.trace[i].kind = "clk_enable" /\ last.trace[i].ret # 0

\* C12: a bind in which the clock enable call fails returns that error and
\* leaves the instance not bound, the failed enable being the last call it
\* makes; no failing bind ever calls clock disable.
C12_BindClockEnableFailure ==
    /\ ClockEnableFailed =>
         /\ last.ret = last.trace[Len(last.trace)].ret
         /\ last.ret # 0
         /\ ~bound
         /\ ~clk_on
         /\ Kinds(last.trace) = <<"device_get_supply_regulator",
                                  "clk_get_by_index", "clk_enable">>
    /\ (last.op = "probe" /\ last.ret # 0) => ~HasKind(last.trace, "clk_disable")

\* a bind that found its regulator and its clock and failed on the enable
C12_Witness ==
    /\ ClockEnableFailed
    /\ priv.vbus_supply /\ priv.clk
    /\ last.ret = -EINVAL
    /\ ~bound

(* -------------------------------- C13 ---------------------------------- *)

\* C13: unbind called after a failed bind does not disable a clock that this
\* instance never obtained or never enabled.
C13_UnbindAfterFailedBindLeavesClock ==
    (last.op = "remove" /\ hist.failed) => ~HasKind(last.trace, "clk_disable")

(* -------------------------------- C14 ---------------------------------- *)

SupplyLookupReturned(r) ==
    /\ last.op = "probe"
    /\ last.trace # <<>>
    /\ last.trace[1] = [kind |-> "device_get_supply_regulator", ret |-> r]

\* C14: in bind a regulator lookup that reports -ENOENT is not an error: bind
\* goes on to the clock lookup and the instance has no regulator; any other
\* lookup failure makes bind fail with that error before the clock is looked
\* up or enabled.
C14_BindRegulatorLookup ==
    /\ SupplyLookupReturned(-ENOENT) =>
         /\ Len(last.trace) >= 2
         /\ last.trace[2].kind = "clk_get_by_index"
         /\ ~priv.vbus_supply
         /\ last.ret = last.trace[Len(last.trace)].ret
    /\ \A r \in SupplyRets \ {0, -ENOENT} :
         SupplyLookupReturned(r) =>
             /\ last.ret = r
             /\ Len(last.trace) = 1
             /\ ~bound
             /\ ~clk_on

\* a successful bind of a device with no regulator configured
C14_Witness ==
    /\ SupplyLookupReturned(-ENOENT)
    /\ bound
    /\ clk_on
    /\ ~priv.vbus_supply
    /\ last.ret = 0

(* -------------------------------- C15 ---------------------------------- *)

\* C15: power_off on an instance without a regulator returns 0 and calls
\* nothing; with a regulator it makes exactly one regulator disable call and
\* returns that call's result.  It writes no PHY register in either case.
C15_PowerOff ==
    last.op = "power_off" =>
        /\ Writes(last.trace) = <<>>
        /\ regs = last.pre
        /\ ~priv.vbus_supply => (last.ret = 0 /\ last.trace = <<>>)
        /\ priv.vbus_supply =>
             last.trace = <<[kind |-> "regulator_set_enable",
                             enable |-> FALSE, ret |-> last.ret]>>

\* a failed disable, which leaves the regulator on
C15_Witness ==
    /\ last.op = "power_off"
    /\ priv.vbus_supply
    /\ last.ret = -EINVAL
    /\ vbus_on

(* -------------------------------- C16 ---------------------------------- *)

PhyOps == {"init", "exit", "power_on", "power_off", "set_mode"}

\* C16: the reference clock is enabled in every state between a successful
\* bind and the following unbind: init, exit, power_on, power_off and
\* set_mode, failing or not, call neither clock enable nor clock disable.
C16_ClockEnabledWhileBound ==
    /\ bound => clk_on
    /\ last.op \in PhyOps =>
         /\ bound
         /\ ~HasKind(last.trace, "clk_enable")
         /\ ~HasKind(last.trace, "clk_disable")
         /\ ~HasKind(last.trace, "clk_get_by_index")

\* the clock still on after a failing power_off that followed a failing set_mode
C16_Witness ==
    /\ bound /\ clk_on
    /\ last.op = "power_off" /\ last.ret # 0
    /\ prev_op = "set_mode"
    /\ ~hist.mode_set

(* -------------------------------- C17 ---------------------------------- *)

\* the four mode bits of a register block
ModeBits(r) == [peri |-> 31 \in r[USB2_COMMCTRL],
                dp_rpd |-> 18 \in r[USB2_LINECTRL1],
                dm_rpd |-> 16 \in r[USB2_LINECTRL1],
                drvvbus |-> 4 \in r[USB2_ADPCTRL]]

DeviceBits == [peri |-> TRUE, dp_rpd |-> FALSE, dm_rpd |-> TRUE, drvvbus |-> FALSE]

HostBits == [peri |-> FALSE, dp_rpd |-> TRUE, dm_rpd |-> TRUE, drvvbus |-> TRUE]

\* C17: the OTG resolution is not cached: whatever calls came before,
\* set_mode(OTG, 0) leaves OTG_PERI, DP_RPD, DM_RPD and DRVVBUS at values that
\* are a function of IDDIG and OTGSESSVLD at that call alone, so two runs with
\* the same status at the call end with the same mode bits.
C17_OtgResolutionNotCached ==
    (IsSetMode(PHY_MODE_USB_OTG) /\ last.submode = 0) =>
        ModeBits(regs) = IF {19, 20} \subseteq last.pre[USB2_ADPCTRL]
                         THEN DeviceBits
                         ELSE HostBits

\* a re-poll that resolves to DEVICE on a block an earlier call had set up as
\* host, after the status bits changed
C17_Witness ==
    /\ IsSetMode(PHY_MODE_USB_OTG) /\ last.submode = 0
    /\ prev_op = "hw_status"
    /\ hist.mode_set
    /\ ModeBits(last.pre) = HostBits
    /\ ModeBits(regs) = DeviceBits

(* -------------------------------- C18 ---------------------------------- *)

\* C18: once a set_mode has succeeded the mode bits stay consistent:
\* COMMCTRL.OTG_PERI is set exactly when ADPCTRL.DRVVBUS is clear and exactly
\* when LINECTRL1.DP_RPD is clear, and LINECTRL1.DM_RPD is set; init, exit,
\* power_on, power_off and a failing set_mode do not disturb this.
C18_ModeBitsConsistent ==
    hist.mode_set =>
        /\ (31 \in regs[USB2_COMMCTRL]) <=> (4 \notin regs[USB2_ADPCTRL])
        /\ (31 \in regs[USB2_COMMCTRL]) <=> (18 \notin regs[USB2_LINECTRL1])
        /\ 16 \in regs[USB2_LINECTRL1]

\* a failing set_mode on a block in device mode
C18_Witness ==
    /\ hist.mode_set
    /\ last.op = "set_mode" /\ last.ret # 0 /\ last.submode # 0
    /\ ModeBits(regs) = DeviceBits

(* -------------------------------- C19 ---------------------------------- *)

\* C19: set_mode returns an error only from calls that wrote no register,
\* whatever submode is: the error is -EINVAL, the mode is unrecognized and the
\* registers are unchanged; a call with mode OTG never returns an error.
C19_SetModeErrorWritesNothing ==
    /\ (last.op = "set_mode" /\ last.ret # 0) =>
         /\ last.ret = -EINVAL
         /\ UnrecognizedMode
         /\ Writes(last.trace) = <<>>
         /\ regs = last.pre
    /\ UnrecognizedMode => last.ret = -EINVAL
    /\ IsSetMode(PHY_MODE_USB_OTG) => last.ret = 0

\* an unrecognized mode with a non-zero submode, on a block never armed
C19_Witness ==
    /\ UnrecognizedMode /\ last.submode # 0
    /\ last.ret = -EINVAL
    /\ hist.int_src = "cleared"
    /\ regs[USB2_INT_ENABLE] = {}
    /\ regs[USB2_OBINTEN] = {}

(* -------------------------------- C20 ---------------------------------- *)

\* init, exit, set_mode and unbind make no regulator call of any kind
NoRegulatorCallOutsidePowerOps ==
    last.op \in {"init", "exit", "set_mode", "remove"} =>
        /\ ~HasKind(last.trace, "regulator_set_enable")
        /\ ~HasKind(last.trace, "device_get_supply_regulator")

\* hist.int_src is "cleared" when an init or exit has run and no arming call
\* came after the most recent one, "armed" when the latest of these calls is a
\* set_mode(OTG, submode # 0)
IntEnableFromArmingOnly ==
    /\ regs[USB2_INT_ENABLE] # {} => hist.int_src = "armed"
    /\ hist.int_src = "armed" =>
         (Hi16(regs[USB2_INT_ENABLE]) = 0 /\ Lo16(regs[USB2_INT_ENABLE]) = 14)

\* the regulator changes state only in a power_on that succeeds (to enabled)
\* or a power_off that succeeds (to disabled)
VbusChangesInPowerOps ==
    vbus_on' # vbus_on =>
        /\ last'.ret = 0
        /\ \/ last'.op = "power_on" /\ vbus_on'
           \/ last'.op = "power_off" /\ ~vbus_on'

\* C20: the regulator's enabled state changes only inside power_on (to
\* enabled) and power_off (to disabled); init, exit, set_mode and unbind never
\* call the regulator, so after a successful power_on it stays enabled through
\* exit and unbind unless a power_off succeeds in between.  In every state
\* that has a most recent init or exit (and in every state after an arming
\* call), INT_ENABLE is non-zero only if a set_mode(OTG, submode # 0) ran after
\* that init or exit, and is then exactly 0xE.
C20_VbusAndIntEnableSources ==
    /\ [](NoRegulatorCallOutsidePowerOps
          /\ (hist.int_src # "reset" => IntEnableFromArmingOnly))
    /\ [][VbusChangesInPowerOps]_vars

\* the regulator still enabled after a successful power_on, an arming call, an
\* exit and an unbind, with INT_ENABLE back at 0
C20_Witness ==
    /\ last.op = "remove" /\ prev_op = "exit"
    /\ ~bound
    /\ vbus_on
    /\ hist.int_src = "cleared"
    /\ regs[USB2_INT_ENABLE] = {}
    /\ {11, 12} \subseteq regs[USB2_OBINTEN]
    /\ regs[USB2_OBINTSTA] = {11, 12}
====
